---- MODULE Spec2Model ----
(***************************************************************************)
(* Model of the `games` CLI (src/src/index.ts): the TTL file cache, the    *)
(* cache-first fetch, the run of main() from option parsing to display,    *)
(* and the filter / sort pipeline.                                         *)
(*                                                                         *)
(* Strings are sequences of one-character strings, so that startsWith,     *)
(* includes, toLowerCase, parseInt and the Date conversions are computed   *)
(* character by character.  A falsy string (null, undefined, '') is the    *)
(* empty sequence: the code only ever tests such values for truthiness.    *)
(*                                                                         *)
(* The clock `now` counts milliseconds since BaseEpochSec (an instant in   *)
(* seconds since the Unix epoch); file modification times use the same     *)
(* scale.  Date.getTime() values are kept in seconds (all timestamps of    *)
(* the model are whole seconds), which preserves every comparison.         *)
(***************************************************************************)
EXTENDS Integers, Sequences, FiniteSets, TLC

VARIABLES
    now,        \* Date.now(), in ms since BaseEpochSec
    tz,         \* local timezone offset of the process, in hours east of UTC
    apiKey,     \* process.env.SPORTSDATA_API_KEY is set
    opts,       \* program.opts(): clearCache, days, team
    pc,         \* position of main(): idle, main, try, teams, games, done, exited
    offset,     \* main's local `offset`: null, a number or NaN
    nflTeams,   \* main's local `nflTeams`: code -> full name
    cacheDir,   \* fs.existsSync(CACHE_DIR)
    files,      \* cache file name -> [exists, mtime, content]
    fetch,      \* cache file name -> state of this run's fetchWithCache call
    result,     \* cache file name -> value returned by fetchWithCache
    requests,   \* cache file name -> number of network requests issued so far
    stdout,     \* lines written by console.log in this run
    stderr,     \* lines written by console.error in this run
    exitCode,   \* exit status of the last finished run (-1: still running)
    runs,       \* number of runs started
    ticks       \* number of clock advances

vars == <<now, tz, apiKey, opts, pc, offset, nflTeams, cacheDir, files, fetch,
          result, requests, stdout, stderr, exitCode, runs, ticks>>

-----------------------------------------------------------------------------
(* Bounds of the model *)

MaxRuns == 2
MaxTicks == 2
MaxGames == 2

-----------------------------------------------------------------------------
(* Program constants *)

\* const CACHE_TTL = 1000 * 60 * 60 * 12
CACHE_TTL == 1000 * 60 * 60 * 12

TEAMS == "nfl_teams.json"
CFB == "cfb_games.json"
NFL == "nfl_schedules.json"
Keys == {TEAMS, CFB, NFL}

-----------------------------------------------------------------------------
(* Characters and strings *)

Digits == <<"0", "1", "2", "3", "4", "5", "6", "7", "8", "9">>

UpperLetters == <<"A", "B", "C", "D", "E", "F", "G", "H", "I", "J", "K", "L", "M",
                  "N", "O", "P", "Q", "R", "S", "T", "U", "V", "W", "X", "Y", "Z">>

LowerLetters == <<"a", "b", "c", "d", "e", "f", "g", "h", "i", "j", "k", "l", "m",
                  "n", "o", "p", "q", "r", "s", "t", "u", "v", "w", "x", "y", "z">>

IsDigit(c) == \E i \in 1..10 : Digits[i] = c

DigitVal(c) == (CHOOSE i \in 1..10 : Digits[i] = c) - 1

Truthy(s) == s # <<>>

\* a || b on strings
OrElse(a, b) == IF Truthy(a) THEN a ELSE b

LowerChar(c) ==
    IF \E i \in 1..26 : UpperLetters[i] = c
    THEN LowerLetters[CHOOSE i \in 1..26 : UpperLetters[i] = c]
    ELSE c

UpperChar(c) ==
    IF \E i \in 1..26 : LowerLetters[i] = c
    THEN UpperLetters[CHOOSE i \in 1..26 : LowerLetters[i] = c]
    ELSE c

toLowerCase(s) == [i \in 1..Len(s) |-> LowerChar(s[i])]

toUpperCase(s) == [i \in 1..Len(s) |-> UpperChar(s[i])]

startsWith(s, p) == Len(s) >= Len(p) /\ SubSeq(s, 1, Len(p)) = p

includes(s, p) ==
    \E i \in 1..(Len(s) + 1) :
        i + Len(p) - 1 <= Len(s) /\ SubSeq(s, i, i + Len(p) - 1) = p

\* the decimal digits of n >= 0, left-padded with zeros to `width`
RECURSIVE PadStart(_, _)
PadStart(n, width) ==
    IF width <= 1 /\ n < 10
    THEN <<Digits[n + 1]>>
    ELSE Append(PadStart(n \div 10, width - 1), Digits[(n % 10) + 1])

\* the value of the digit string s[from..to]
RECURSIVE NumAt(_, _, _)
NumAt(s, from, to) ==
    IF to < from THEN 0 ELSE NumAt(s, from, to - 1) * 10 + DigitVal(s[to])

-----------------------------------------------------------------------------
(* JavaScript numbers as far as main() needs them: null, a number, NaN *)

Null == [t |-> "null", v |-> 0]
NaN == [t |-> "nan", v |-> 0]
Num(n) == [t |-> "num", v |-> n]

\* length of the longest prefix of digits of s starting at position i
RECURSIVE DigitRun(_, _)
DigitRun(s, i) ==
    IF i <= Len(s) /\ IsDigit(s[i]) THEN 1 + DigitRun(s, i + 1) ELSE 0

RECURSIVE SkipSpaces(_, _)
SkipSpaces(s, i) ==
    IF i <= Len(s) /\ s[i] = " " THEN SkipSpaces(s, i + 1) ELSE i

\* parseInt(s, 10): leading white space, an optional sign, then the longest run
\* of digits; whatever follows is ignored; no digit at all gives NaN
parseInt(s) ==
    LET i == SkipSpaces(s, 1)
        signed == i <= Len(s) /\ s[i] \in {"+", "-"}
        neg == signed /\ s[i] = "-"
        j == IF signed THEN i + 1 ELSE i
        k == DigitRun(s, j)
        mag == NumAt(s, j, j + k - 1)
    IN  IF k = 0 THEN NaN ELSE Num(IF neg THEN 0 - mag ELSE mag)

-----------------------------------------------------------------------------
(* Calendar arithmetic of Date (proleptic Gregorian, days since 1970-01-01) *)

SecPerDay == 86400

CivilFromDays(days) ==
    LET z == days + 719468
        era == z \div 146097
        doe == z - era * 146097
        yoe == (doe - doe \div 1460 + doe \div 36524 - doe \div 146096) \div 365
        doy == doe - (365 * yoe + yoe \div 4 - yoe \div 100)
        mp == (5 * doy + 2) \div 153
        d == doy - (153 * mp + 2) \div 5 + 1
        m == IF mp < 10 THEN mp + 3 ELSE mp - 9
        y == yoe + era * 400 + (IF m <= 2 THEN 1 ELSE 0)
    IN  [year |-> y, month |-> m, day |-> d]

DaysFromCivil(y, m, d) ==
    LET yy == IF m <= 2 THEN y - 1 ELSE y
        era == yy \div 400
        yoe == yy - era * 400
        doy == (153 * (IF m > 2 THEN m - 3 ELSE m + 9) + 2) \div 5 + d - 1
        doe == yoe * 365 + yoe \div 4 - yoe \div 100 + doy
    IN  era * 146097 + doe - 719468

\* YYYY-MM-DD of a day number
DateString(days) ==
    LET c == CivilFromDays(days)
    IN  PadStart(c.year, 4) \o <<"-">> \o PadStart(c.month, 2) \o <<"-">>
        \o PadStart(c.day, 2)

\* Date.prototype.toISOString().split('T')[0]: the UTC calendar date
ISODate(epochSec) == DateString(epochSec \div SecPerDay)

\* today.setDate(today.getDate() + n): the day of the month of the LOCAL
\* calendar date is moved by n, the local time of day is kept
SetDatePlus(epochSec, n, zone) ==
    LET localSec == epochSec + zone * 3600
        c == CivilFromDays(localSec \div SecPerDay)
        tod == localSec % SecPerDay
        day0 == DaysFromCivil(c.year, c.month, 1) + (c.day + n) - 1
    IN  day0 * SecPerDay + tod - zone * 3600

\* new Date(s).getTime() for the formats of the upstream API, in seconds:
\* YYYY-MM-DD is UTC midnight, YYYY-MM-DDTHH:MM:SS is local time, a trailing Z
\* makes it UTC
ParseDate(s, zone) ==
    LET days == DaysFromCivil(NumAt(s, 1, 4), NumAt(s, 6, 7), NumAt(s, 9, 10))
        hasTime == Len(s) >= 19
        tod == IF hasTime
               THEN NumAt(s, 12, 13) * 3600 + NumAt(s, 15, 16) * 60 + NumAt(s, 18, 19)
               ELSE 0
        utc == ~hasTime \/ (Len(s) >= 20 /\ s[20] = "Z")
    IN  days * SecPerDay + tod - (IF utc THEN 0 ELSE zone * 3600)

-----------------------------------------------------------------------------
(* Records *)

\* an upstream game record; a field the upstream schema lacks is <<>>
RawCFB(home, away, dt, day, week, ch) ==
    [HomeTeam |-> <<>>, AwayTeam |-> <<>>, HomeTeamName |-> home,
     AwayTeamName |-> away, DateTime |-> dt, Day |-> day, Week |-> week,
     Channel |-> ch]

RawNFL(home, away, dt, day, week, ch) ==
    [HomeTeam |-> home, AwayTeam |-> away, HomeTeamName |-> <<>>,
     AwayTeamName |-> <<>>, DateTime |-> dt, Day |-> day, Week |-> week,
     Channel |-> ch]

\* stands for "no game" in an output line that is not a game row
NoGame ==
    [league |-> "", home |-> <<>>, away |-> <<>>, dateTime |-> <<>>,
     day |-> <<>>, week |-> 0, channel |-> <<>>]

Line(kind, text, game) == [kind |-> kind, text |-> text, game |-> game]

\* the file written by JSON.stringify(data, null, 2), and a file that is not JSON
JSONStringify(data) == [valid |-> TRUE, data |-> data]
CorruptText == [valid |-> FALSE, data |-> <<>>]

NoFile == [exists |-> FALSE, mtime |-> 0, content |-> CorruptText]

\* a fetchWithCache call: st is none, start, pending, ok or failed; cache is the
\* branch lines 61-63 took (absent, stale, fresh); err is the error thrown
Call(st, cache, err) == [st |-> st, cache |-> cache, err |-> err]
NoCall == Call("none", "none", "")

-----------------------------------------------------------------------------
(* fetchNFLTeams and fetchGames: the pure part *)

\* teams.reduce((map, t) => { map[t.Key.toUpperCase()] = t.FullName; ... }, {})
TeamMap(teams) ==
    [k \in {toUpperCase(teams[i].Key) : i \in 1..Len(teams)} |->
        LET last == CHOOSE i \in 1..Len(teams) :
                        /\ toUpperCase(teams[i].Key) = k
                        /\ \A j \in (i + 1)..Len(teams) : toUpperCase(teams[j].Key) # k
        IN  teams[last].FullName]

\* nflTeams?.[code]
Lookup(teams, code) == IF code \in DOMAIN teams THEN teams[code] ELSE <<>>

NormalizeGame(g, league, teams) ==
    [league |-> league,
     home |-> IF league = "NFL"
              THEN OrElse(Lookup(teams, g.HomeTeam), g.HomeTeam)
              ELSE g.HomeTeamName,
     away |-> IF league = "NFL"
              THEN OrElse(Lookup(teams, g.AwayTeam), g.AwayTeam)
              ELSE g.AwayTeamName,
     dateTime |-> OrElse(g.DateTime, <<>>),
     day |-> OrElse(g.Day, <<>>),
     week |-> g.Week,
     channel |-> OrElse(g.Channel, <<>>)]

Normalize(data, league, teams) ==
    [i \in 1..Len(data) |-> NormalizeGame(data[i], league, teams)]

-----------------------------------------------------------------------------
(* The filter / sort pipeline *)

\* 2025-08-31T00:00:00Z, the instant at which `now` is 0
BaseEpochSec == DaysFromCivil(2025, 8, 31) * SecPerDay

computeTargetDate(daysOffset, nowMs, zone) ==
    ISODate(SetDatePlus(BaseEpochSec + nowMs \div 1000, daysOffset, zone))

DateFilter(g, targetDate) ==
    \/ Truthy(g.dateTime) /\ startsWith(g.dateTime, targetDate)
    \/ Truthy(g.day) /\ startsWith(g.day, targetDate)

TeamFilter(g, search) ==
    \/ includes(toLowerCase(g.home), search)
    \/ includes(toLowerCase(g.away), search)

\* new Date(g.dateTime || g.day || 0).getTime()
TimeOf(g, zone) ==
    LET s == OrElse(g.dateTime, g.day)
    IN  IF Truthy(s) THEN ParseDate(s, zone) ELSE 0

\* Compare with the week test forgotten
Compare_TimeOnly(a, b, zone) == TimeOf(a, zone) - TimeOf(b, zone)

Compare(a, b, zone) ==
    IF a.week # b.week
    THEN a.week - b.week
    ELSE TimeOf(a, zone) - TimeOf(b, zone)

\* Array.prototype.sort is stable: x goes after every element not greater
RECURSIVE InsertSorted(_, _, _)
InsertSorted(s, x, zone) ==
    IF s = <<>> \/ Compare(s[Len(s)], x, zone) <= 0
    THEN Append(s, x)
    ELSE Append(InsertSorted(SubSeq(s, 1, Len(s) - 1), x, zone), s[Len(s)])

RECURSIVE SortGames(_, _)
SortGames(s, zone) ==
    IF s = <<>>
    THEN <<>>
    ELSE InsertSorted(SortGames(SubSeq(s, 1, Len(s) - 1), zone), s[Len(s)], zone)

\* OffsetOf without the default of today
OffsetOf_NoDefault(o) == IF o.days # <<>> THEN parseInt(o.days) ELSE Null

\* lines 149-158: the offset main() works with
OffsetOf(o) ==
    IF ~Truthy(o.days) /\ ~Truthy(o.team)
    THEN Num(0)
    ELSE IF o.days # <<>> THEN parseInt(o.days) ELSE Null

\* lines 172-190: the games left after the two filters
Filtered(combined, off, o, nowMs, zone) ==
    LET byDate == IF off.t # "null"
                  THEN SelectSeq(combined,
                         LAMBDA g : DateFilter(g, computeTargetDate(off.v, nowMs, zone)))
                  ELSE combined
    IN  IF Truthy(o.team)
        THEN SelectSeq(byDate, LAMBDA g : TeamFilter(g, toLowerCase(o.team)))
        ELSE byDate

\* lines 209-214: the header line
Header(off, o, nowMs, zone) ==
    IF off.t # "null"
    THEN Line("header", computeTargetDate(off.v, nowMs, zone), NoGame)
    ELSE IF Truthy(o.team)
         THEN Line("headerTeam", o.team, NoGame)
         ELSE Line("headerAll", <<>>, NoGame)

\* lines 192-237: what the display phase prints
Listing(combined, off, o, nowMs, zone) ==
    LET kept == Filtered(combined, off, o, nowMs, zone)
        sorted == SortGames(kept, zone)
    IN  IF Len(kept) = 0
        THEN <<Line("nogames", <<>>, NoGame)>>
        ELSE <<Header(off, o, nowMs, zone)>>
             \o [i \in 1..Len(sorted) |-> Line("row", <<>>, sorted[i])]

-----------------------------------------------------------------------------
(* Inputs of the model: command lines, upstream payloads, clocks *)

Str_0 == <<"0">>
Str_plus1 == <<"+", "1">>
Str_minus1 == <<"-", "1">>
Str_abc == <<"a", "b", "c">>
Str_1p5 == <<"1", ".", "5">>
Str_1abc == <<"1", "a", "b", "c">>
Str_EA == <<"E", "A">>
Str_a == <<"a">>

Army == <<"A", "r", "m", "y">>
Navy == <<"N", "a", "v", "y">>
PHI == <<"P", "H", "I">>
DAL == <<"D", "A", "L">>
Eagles == <<"E", "a", "g", "l", "e", "s">>
Cowboys == <<"C", "o", "w", "b", "o", "y", "s">>
ESPN == <<"E", "S", "P", "N">>

\* YYYY-MM-DDTHH:MM:00, the upstream timestamp format
Stamp(y, m, d, hh, mm) ==
    PadStart(y, 4) \o <<"-">> \o PadStart(m, 2) \o <<"-">> \o PadStart(d, 2)
    \o <<"T">> \o PadStart(hh, 2) \o <<":">> \o PadStart(mm, 2) \o <<":", "0", "0">>

Options(clear, days, team) == [clearCache |-> clear, days |-> days, team |-> team]

\* the command lines (with the API key set or not) the runs are started with
CommandLines ==
    {<<Options(TRUE, <<>>, <<>>), TRUE>>,
     <<Options(TRUE, Str_abc, Str_EA), FALSE>>,
     <<Options(FALSE, <<>>, <<>>), TRUE>>,
     <<Options(FALSE, <<>>, <<>>), FALSE>>,
     <<Options(FALSE, <<>>, Str_EA), TRUE>>,
     <<Options(FALSE, Str_plus1, <<>>), TRUE>>,
     <<Options(FALSE, Str_0, Str_EA), TRUE>>,
     <<Options(FALSE, Str_abc, <<>>), TRUE>>,
     <<Options(FALSE, Str_1p5, <<>>), TRUE>>}

\* local timezone offsets, in hours east of UTC
TimeZones == {0 - 5, 0, 9}

\* the zone the runs of Spec are made in
RunZones == {0 - 5}

TickMs == CACHE_TTL \div 2

cfbEvening == RawCFB(Navy, Army, Stamp(2025, 8, 31, 18, 0), Stamp(2025, 8, 31, 0, 0), 1, ESPN)
cfbLate == RawCFB(Army, Navy, Stamp(2025, 9, 1, 0, 30), Stamp(2025, 8, 31, 0, 0), 1, <<>>)
cfbDayOnly == RawCFB(Navy, Army, <<>>, Stamp(2025, 8, 31, 0, 0), 2, <<>>)
cfbUnknown == RawCFB(Army, Navy, <<>>, <<>>, 1, <<>>)
nflEarly == RawNFL(PHI, DAL, Stamp(2025, 8, 31, 13, 0), Stamp(2025, 8, 31, 0, 0), 1, ESPN)
nflUnknown == RawNFL(DAL, PHI, <<>>, <<>>, 1, <<>>)
nflNextWeek == RawNFL(PHI, DAL, Stamp(2025, 9, 1, 13, 0), Stamp(2025, 9, 1, 0, 0), 2, <<>>)

teamsOne == <<[Key |-> PHI, FullName |-> Eagles]>>
teamsTwo == <<[Key |-> PHI, FullName |-> Eagles], [Key |-> DAL, FullName |-> Cowboys]>>

\* the bodies the upstream API may answer with, per resource
Bodies(k) ==
    CASE k = TEAMS -> {teamsOne, teamsTwo}
      [] k = CFB -> {<<cfbEvening>>, <<cfbLate, cfbDayOnly>>}
      [] k = NFL -> {<<nflNextWeek, nflUnknown, nflEarly>>}

-----------------------------------------------------------------------------
(* The cache store *)

\* IsFresh with the comparison the wrong way round
IsFresh_Inverted(k) == files[k].exists /\ now - files[k].mtime > CACHE_TTL

\* IsFresh with an entry of age exactly the TTL still fresh
IsFresh_Inclusive(k) == files[k].exists /\ now - files[k].mtime <= CACHE_TTL

\* lines 61-63: the entry exists and is younger than the TTL
IsFresh(k) == files[k].exists /\ now - files[k].mtime < CACHE_TTL

\* lines 48-55
clearCache ==
    IF cacheDir
    THEN /\ cacheDir' = FALSE
         /\ files' = [k \in Keys |-> NoFile]
         /\ stdout' = Append(stdout, Line("cleared", <<>>, NoGame))
    ELSE /\ UNCHANGED <<cacheDir, files>>
         /\ stdout' = Append(stdout, Line("nocache", <<>>, NoGame))

Settled == \A k \in Keys : fetch[k].st \notin {"start", "pending"}

-----------------------------------------------------------------------------
(* Actions *)

Init ==
    /\ now = 0
    /\ tz \in RunZones
    /\ apiKey = TRUE
    /\ opts = Options(FALSE, <<>>, <<>>)
    /\ pc = "idle"
    /\ offset = Null
    /\ nflTeams = <<>>
    /\ cacheDir = FALSE
    /\ files = [k \in Keys |-> NoFile]
    /\ fetch = [k \in Keys |-> NoCall]
    /\ result = [k \in Keys |-> <<>>]
    /\ requests = [k \in Keys |-> 0]
    /\ stdout = <<>>
    /\ stderr = <<>>
    /\ exitCode = 0 - 1
    /\ runs = 0
    /\ ticks = 0

\* the process starts: program.parse(process.argv), the environment is read
StartRun(o, key) ==
    /\ pc \in {"idle", "done", "exited"}
    /\ Settled
    /\ runs < MaxRuns
    /\ opts' = o
    /\ apiKey' = key
    /\ pc' = "main"
    /\ offset' = Null
    /\ nflTeams' = <<>>
    /\ fetch' = [k \in Keys |-> NoCall]
    /\ result' = [k \in Keys |-> <<>>]
    /\ stdout' = <<>>
    /\ stderr' = <<>>
    /\ exitCode' = 0 - 1
    /\ runs' = runs + 1
    /\ UNCHANGED <<now, tz, cacheDir, files, requests, ticks>>

\* lines 144-147
MainClearCache ==
    /\ pc = "main"
    /\ opts.clearCache
    /\ clearCache
    /\ exitCode' = 0
    /\ pc' = "exited"
    /\ UNCHANGED <<now, tz, apiKey, opts, offset, nflTeams, fetch, result, requests,
                   stderr, runs, ticks>>

\* MainOffset placed before the --clear-cache test
MainOffset_BeforeClear ==
    /\ pc = "main"
    /\ offset' = OffsetOf(opts)
    /\ IF OffsetOf(opts).t = "nan"
       THEN /\ stderr' = Append(stderr, [kind |-> "usage", msg |-> "Invalid value for --days"])
            /\ exitCode' = 1
            /\ pc' = "exited"
       ELSE /\ pc' = "try"
            /\ UNCHANGED <<stderr, exitCode>>
    /\ UNCHANGED <<now, tz, apiKey, opts, nflTeams, cacheDir, files, fetch, result,
                   requests, stdout, runs, ticks>>

\* lines 149-158
MainOffset ==
    /\ pc = "main"
    /\ ~opts.clearCache
    /\ offset' = OffsetOf(opts)
    /\ IF OffsetOf(opts).t = "nan"
       THEN /\ stderr' = Append(stderr, [kind |-> "usage", msg |-> "Invalid value for --days"])
            /\ exitCode' = 1
            /\ pc' = "exited"
       ELSE /\ pc' = "try"
            /\ UNCHANGED <<stderr, exitCode>>
    /\ UNCHANGED <<now, tz, apiKey, opts, nflTeams, cacheDir, files, fetch, result,
                   requests, stdout, runs, ticks>>

\* lines 160-163: the API key check, then fetchNFLTeams() is called
MainTry ==
    /\ pc = "try"
    /\ IF ~apiKey
       THEN /\ stderr' = Append(stderr, [kind |-> "error", msg |-> "Missing API key in .env"])
            /\ exitCode' = 0
            /\ pc' = "done"
            /\ UNCHANGED fetch
       ELSE /\ fetch' = [fetch EXCEPT ![TEAMS] = Call("start", "none", "")]
            /\ pc' = "teams"
            /\ UNCHANGED <<stderr, exitCode>>
    /\ UNCHANGED <<now, tz, apiKey, opts, offset, nflTeams, cacheDir, files, result,
                   requests, stdout, runs, ticks>>

\* FetchBegin falling back to the network when the fresh entry is not JSON
FetchBegin_Fallback(k) ==
    /\ fetch[k].st = "start"
    /\ k = NFL => fetch[CFB].st # "start"
    /\ cacheDir' = TRUE
    /\ IF IsFresh(k) /\ files[k].content.valid
       THEN /\ fetch' = [fetch EXCEPT ![k] = Call("ok", "fresh", "")]
            /\ result' = [result EXCEPT ![k] = files[k].content.data]
            /\ UNCHANGED requests
       ELSE /\ requests' = [requests EXCEPT ![k] = @ + 1]
            /\ fetch' = [fetch EXCEPT
                           ![k] = Call("pending",
                                       IF files[k].exists THEN "stale" ELSE "absent", "")]
            /\ UNCHANGED result
    /\ UNCHANGED <<now, tz, apiKey, opts, pc, offset, nflTeams, files, stdout, stderr,
                   exitCode, runs, ticks>>

\* lines 58-68: fetchWithCache up to its first await; the two schedule fetches
\* of Promise.all start in argument order
FetchBegin(k) ==
    /\ fetch[k].st = "start"
    /\ k = NFL => fetch[CFB].st # "start"
    /\ cacheDir' = TRUE
    /\ IF IsFresh(k)
       THEN /\ IF files[k].content.valid
               THEN /\ fetch' = [fetch EXCEPT ![k] = Call("ok", "fresh", "")]
                    /\ result' = [result EXCEPT ![k] = files[k].content.data]
               ELSE /\ fetch' = [fetch EXCEPT ![k] = Call("failed", "fresh", "SyntaxError")]
                    /\ UNCHANGED result
            /\ UNCHANGED requests
       ELSE /\ requests' = [requests EXCEPT ![k] = @ + 1]
            /\ fetch' = [fetch EXCEPT
                           ![k] = Call("pending",
                                       IF files[k].exists THEN "stale" ELSE "absent", "")]
            /\ UNCHANGED result
    /\ UNCHANGED <<now, tz, apiKey, opts, pc, offset, nflTeams, files, stdout, stderr,
                   exitCode, runs, ticks>>

\* line 69: the response is not 2xx
RespondError(k) ==
    /\ fetch[k].st = "pending"
    /\ fetch' = [fetch EXCEPT ![k] = Call("failed", @.cache, "HTTP")]
    /\ UNCHANGED <<now, tz, apiKey, opts, pc, offset, nflTeams, cacheDir, files, result,
                   requests, stdout, stderr, exitCode, runs, ticks>>

\* line 70: the body is not JSON
RespondBadJSON(k) ==
    /\ fetch[k].st = "pending"
    /\ fetch' = [fetch EXCEPT ![k] = Call("failed", @.cache, "SyntaxError")]
    /\ UNCHANGED <<now, tz, apiKey, opts, pc, offset, nflTeams, cacheDir, files, result,
                   requests, stdout, stderr, exitCode, runs, ticks>>

\* lines 69-72: a 2xx response with a JSON body is written to the cache
RespondOK(k, body) ==
    /\ fetch[k].st = "pending"
    /\ files' = [files EXCEPT
                   ![k] = [exists |-> TRUE, mtime |-> now, content |-> JSONStringify(body)]]
    /\ result' = [result EXCEPT ![k] = body]
    /\ fetch' = [fetch EXCEPT ![k] = Call("ok", @.cache, "")]
    /\ UNCHANGED <<now, tz, apiKey, opts, pc, offset, nflTeams, cacheDir, requests,
                   stdout, stderr, exitCode, runs, ticks>>

\* lines 163-168: the team lookup resolved; both fetchGames calls are made
MainTeamsDone ==
    /\ pc = "teams"
    /\ fetch[TEAMS].st = "ok"
    /\ nflTeams' = TeamMap(result[TEAMS])
    /\ fetch' = [fetch EXCEPT ![CFB] = Call("start", "none", ""),
                              ![NFL] = Call("start", "none", "")]
    /\ pc' = "games"
    /\ UNCHANGED <<now, tz, apiKey, opts, offset, cacheDir, files, result, requests,
                   stdout, stderr, exitCode, runs, ticks>>

\* lines 238-240: the awaited fetch (or one of the two awaited jointly) rejected
MainCatch(k) ==
    /\ fetch[k].st = "failed"
    /\ \/ pc = "teams" /\ k = TEAMS
       \/ /\ pc = "games"
          /\ k \in {CFB, NFL}
          /\ \A j \in {CFB, NFL} : fetch[j].st # "start"
    /\ stderr' = Append(stderr, [kind |-> "error", msg |-> fetch[k].err])
    /\ exitCode' = 0
    /\ pc' = "done"
    /\ UNCHANGED <<now, tz, apiKey, opts, offset, nflTeams, cacheDir, files, fetch,
                   result, requests, stdout, runs, ticks>>

\* line 170: [...cfbGames, ...nflGames]
Combined ==
    Normalize(result[CFB], "CFB", <<>>) \o Normalize(result[NFL], "NFL", nflTeams)

\* Display as soon as the college schedule is there
Display_AfterFirst ==
    /\ pc = "games"
    /\ fetch[CFB].st = "ok"
    /\ stdout' = stdout \o Listing(Combined, offset, opts, now, tz)
    /\ exitCode' = 0
    /\ pc' = "done"
    /\ UNCHANGED <<now, tz, apiKey, opts, offset, nflTeams, cacheDir, files, fetch,
                   result, requests, stderr, runs, ticks>>

\* lines 170-237: both schedule fetches resolved; filter, sort, print
Display ==
    /\ pc = "games"
    /\ fetch[CFB].st = "ok"
    /\ fetch[NFL].st = "ok"
    /\ stdout' = stdout \o Listing(Combined, offset, opts, now, tz)
    /\ exitCode' = 0
    /\ pc' = "done"
    /\ UNCHANGED <<now, tz, apiKey, opts, offset, nflTeams, cacheDir, files, fetch,
                   result, requests, stderr, runs, ticks>>

\* time passes
Tick ==
    /\ ticks < MaxTicks
    /\ now' = now + TickMs
    /\ ticks' = ticks + 1
    /\ UNCHANGED <<tz, apiKey, opts, pc, offset, nflTeams, cacheDir, files, fetch,
                   result, requests, stdout, stderr, exitCode, runs>>

\* between runs a cache file is damaged (what readFileSync returns is not JSON)
Corrupt(k) ==
    /\ pc \in {"idle", "done", "exited"}
    /\ Settled
    /\ files[k].exists
    /\ files[k].content.valid
    /\ files' = [files EXCEPT ![k] = [exists |-> TRUE, mtime |-> now, content |-> CorruptText]]
    /\ UNCHANGED <<now, tz, apiKey, opts, pc, offset, nflTeams, cacheDir, fetch, result,
                   requests, stdout, stderr, exitCode, runs, ticks>>

Next ==
    \/ \E c \in CommandLines : StartRun(c[1], c[2])
    \/ MainClearCache
    \/ MainOffset
    \/ MainTry
    \/ \E k \in Keys : FetchBegin(k)
    \/ \E k \in Keys : RespondError(k)
    \/ \E k \in Keys : RespondBadJSON(k)
    \/ \E k \in Keys : \E body \in Bodies(k) : RespondOK(k, body)
    \/ MainTeamsDone
    \/ \E k \in Keys : MainCatch(k)
    \/ Display
    \/ Tick
    \/ \E k \in Keys : Corrupt(k)

Spec == Init /\ [][Next]_vars

-----------------------------------------------------------------------------
(* The display phase on its own: main() stands at line 170 with both         *)
(* schedules fetched over the network in this run, for every schedule of up  *)
(* to MaxGames games per league, every clock and zone, every valid command   *)
(* line.                                                                     *)

RECURSIVE SeqsUpTo(_, _)
SeqsUpTo(S, n) ==
    IF n = 0
    THEN {<<>>}
    ELSE LET shorter == SeqsUpTo(S, n - 1)
         IN  shorter \cup {Append(q, x) : q \in shorter, x \in S}

RawCFBs == {cfbEvening, cfbLate, cfbDayOnly, cfbUnknown}
RawNFLs == {nflEarly, nflUnknown, nflNextWeek}

PipeNows == {0, 3 * TickMs}

PipeOptions ==
    {Options(FALSE, d, t) : d \in {<<>>, Str_0, Str_plus1, Str_minus1},
                            t \in {<<>>, Str_EA, Str_a}}

Fetched(k, body) == [exists |-> TRUE, mtime |-> now, content |-> JSONStringify(body)]

InitPipe ==
    /\ now \in PipeNows
    /\ tz \in TimeZones
    /\ apiKey = TRUE
    /\ opts \in PipeOptions
    /\ pc = "games"
    /\ offset = OffsetOf(opts)
    /\ nflTeams = TeamMap(teamsOne)
    /\ cacheDir = TRUE
    /\ \E c \in SeqsUpTo(RawCFBs, MaxGames), n \in SeqsUpTo(RawNFLs, MaxGames) :
          /\ result = [k \in Keys |->
                         IF k = TEAMS THEN teamsOne ELSE IF k = CFB THEN c ELSE n]
          /\ files = [k \in Keys |-> Fetched(k, result[k])]
    /\ fetch = [k \in Keys |-> Call("ok", "absent", "")]
    /\ requests = [k \in Keys |-> 1]
    /\ stdout = <<>>
    /\ stderr = <<>>
    /\ exitCode = 0 - 1
    /\ runs = 1
    /\ ticks = 0

NextPipe == Display

SpecPipe == InitPipe /\ [][NextPipe]_vars

-----------------------------------------------------------------------------
(* Vocabulary of the properties *)

Range(q) == {q[i] : i \in DOMAIN q}

Count(q, x) == Cardinality({i \in DOMAIN q : q[i] = x})

\* a and b hold the same elements the same number of times
SamePerm(a, b) ==
    /\ Len(a) = Len(b)
    /\ \A i \in DOMAIN a : Count(a, a[i]) = Count(b, a[i])

RowLines(out) == SelectSeq(out, LAMBDA l : l.kind = "row")

\* the games printed, in the order printed
Rows(out) == [i \in 1..Len(RowLines(out)) |-> RowLines(out)[i].game]

\* header, game row or 'No games found'
IsListingLine(l) == l.kind \in {"header", "headerTeam", "headerAll", "row", "nogames"}

HasListing(out) == \E i \in DOMAIN out : IsListingLine(out[i])

\* an optional sign followed by digits and nothing else
IsIntegerString(s) ==
    LET j == IF Len(s) >= 1 /\ s[1] \in {"+", "-"} THEN 2 ELSE 1
    IN  /\ j <= Len(s)
        /\ \A i \in j..Len(s) : IsDigit(s[i])

\* the local calendar date of (the instant nowMs) + n days, as YYYY-MM-DD
LocalDate(nowMs, n, zone) ==
    DateString((BaseEpochSec + nowMs \div 1000 + zone * 3600) \div SecPerDay + n)

\* dateTime if present, else day, else epoch zero
EffectiveTime(g) ==
    IF Truthy(g.dateTime)
    THEN ParseDate(g.dateTime, tz)
    ELSE IF Truthy(g.day) THEN ParseDate(g.day, tz) ELSE 0

\* the step is the synchronous part of fetchWithCache for k
Begins(k) == fetch[k].st = "start" /\ fetch'[k].st # "start"

Age(k) == now - files[k].mtime

-----------------------------------------------------------------------------
(* C1 *)

\* C1: a fetchWithCache call that finds the entry written by an earlier call
\* less than CACHE_TTL ago issues no network request and does not write the
\* cache; it returns the stored payload.  So the two calls issue one request.
C1_SecondCallIsCacheRead ==
    [][\A k \in Keys :
          (/\ Begins(k)
           /\ files[k].exists
           /\ files[k].content.valid
           /\ Age(k) < CACHE_TTL)
          => /\ requests' = requests
             /\ files' = files
             /\ fetch'[k].st = "ok"
             /\ result'[k] = files[k].content.data]_vars

\* a second run, later but within the TTL, served key k from the cache, and k
\* has been requested once in total
C1_Witness ==
    \E k \in Keys :
        /\ runs = 2
        /\ fetch[k] = Call("ok", "fresh", "")
        /\ requests[k] = 1
        /\ Age(k) > 0
        /\ result[k] = files[k].content.data

-----------------------------------------------------------------------------
(* C2 *)

\* C2: a fetchWithCache call that finds an entry of age >= CACHE_TTL issues
\* exactly one request and leaves the cache alone until the answer; when the
\* request succeeds the entry holds the new payload and the current time, and
\* is fresh again.  A request is only ever issued by a call that begins.
C2_StaleRefetches ==
    [][\A k \in Keys :
          /\ (Begins(k) /\ files[k].exists /\ Age(k) >= CACHE_TTL)
                => /\ requests'[k] = requests[k] + 1
                   /\ fetch'[k] = Call("pending", "stale", "")
                   /\ files' = files
          /\ (fetch[k].st = "pending" /\ fetch[k].cache = "stale" /\ fetch'[k].st = "ok")
                => /\ requests' = requests
                   /\ files'[k].exists
                   /\ files'[k].content = JSONStringify(result'[k])
                   /\ files'[k].mtime = now'
                   /\ now' - files'[k].mtime < CACHE_TTL
                   /\ \A j \in Keys \ {k} : files'[j] = files[j]
          /\ requests'[k] # requests[k]
                => Begins(k) /\ requests'[k] = requests[k] + 1]_vars

\* a second request for k has overwritten the stale entry the first had stored
C2_Witness ==
    \E k \in Keys :
        /\ fetch[k] = Call("ok", "stale", "")
        /\ requests[k] = 2
        /\ now >= CACHE_TTL
        /\ files[k] = [exists |-> TRUE, mtime |-> now, content |-> JSONStringify(result[k])]

-----------------------------------------------------------------------------
(* C3 *)

\* C3: a run with --clear-cache issues no request, prints no listing line and
\* ends in the exit with status 0 of lines 144-147, whatever --days, --team and
\* the API key are; at that exit the cache directory and its files are gone,
\* and the one line printed says "cleared" exactly when the directory existed.
C3_ClearCacheShortCircuits ==
    [][(opts'.clearCache /\ pc' # "idle")
          => /\ requests' = requests
             /\ pc' \in {"main", "exited"}
             /\ \A k \in Keys : fetch'[k] = NoCall
             /\ ~HasListing(stdout')
             /\ stderr' = <<>>
             /\ pc' = "exited"
                  => /\ exitCode' = 0
                     /\ ~cacheDir'
                     /\ \A k \in Keys : ~files'[k].exists
                     /\ Len(stdout') = 1
                     /\ stdout'[1].kind \in {"cleared", "nocache"}
             /\ (pc = "main" /\ pc' = "exited")
                  => (stdout'[1].kind = "cleared") = cacheDir]_vars

\* --clear-cache with a non-integer --days and no API key removed a cache that
\* an earlier run had filled
C3_Witness ==
    /\ pc = "exited"
    /\ opts = Options(TRUE, Str_abc, Str_EA)
    /\ ~apiKey
    /\ stdout = <<Line("cleared", <<>>, NoGame)>>
    /\ \E k \in Keys : requests[k] > 0

-----------------------------------------------------------------------------
(* C4 *)

\* C4: a run without --clear-cache whose --days value is given and is not an
\* integer has, once past the option handling, exited with status 1 and a usage
\* error, with no fetchWithCache call made.
C4_NonIntegerDaysIsUsageError ==
    (/\ pc \notin {"idle", "main"}
     /\ ~opts.clearCache
     /\ Truthy(opts.days)
     /\ ~IsIntegerString(opts.days))
    => /\ pc = "exited"
       /\ exitCode = 1
       /\ \E i \in DOMAIN stderr : stderr[i].kind = "usage"
       /\ \A k \in Keys : fetch[k] = NoCall

-----------------------------------------------------------------------------
(* C5 *)

\* what C5 says the date filter keeps
KeptByDate(g, targetDate) ==
    \/ Truthy(g.dateTime) /\ startsWith(g.dateTime, targetDate)
    \/ ~Truthy(g.dateTime) /\ Truthy(g.day) /\ startsWith(g.day, targetDate)

\* C5: with a date filter for target date D (and no team filter) the games
\* printed are exactly those whose dateTime is present and starts with D, or
\* whose dateTime is absent and whose day is present and starts with D.
C5_DateFilterPrefersDateTime ==
    (pc = "done" /\ offset.t = "num" /\ ~Truthy(opts.team))
    => \A g \in Range(Combined) :
          (g \in Range(Rows(stdout)))
             <=> KeptByDate(g, computeTargetDate(offset.v, now, tz))

-----------------------------------------------------------------------------
(* C6 *)

\* C6: the date computeTargetDate(offset) returns, as printed in the header
\* "Games for <date>", is the local calendar date of today + offset days.
C6_TargetDateIsLocalDate ==
    (pc = "done" /\ offset.t = "num" /\ stdout # <<>> /\ stdout[1].kind = "header")
    => stdout[1].text = LocalDate(now, offset.v, tz)

-----------------------------------------------------------------------------
(* C7 *)

\* C7: a schedule fetch is only started once the team lookup has succeeded; a
\* listing line is only printed once both schedule fetches have succeeded; a
\* run in which a fetch failed prints no header and no game row, and has
\* printed the error when main() is done.
C7_PhasesAreOrdered ==
    /\ (fetch[CFB].st # "none" \/ fetch[NFL].st # "none") => fetch[TEAMS].st = "ok"
    /\ HasListing(stdout) => \A k \in Keys : fetch[k].st = "ok"
    /\ (\E k \in Keys : fetch[k].st = "failed")
          => /\ ~HasListing(stdout)
             /\ pc \in {"teams", "games", "done"}
             /\ pc = "done" => /\ Len(stderr) = 1
                               /\ stderr[1].kind = "error"
                               /\ \E k \in Keys : /\ fetch[k].st = "failed"
                                                  /\ stderr[1].msg = fetch[k].err

\* one schedule fetch succeeded over the network, the other failed: the run is
\* done, the error is printed and nothing is listed
C7_Witness ==
    /\ pc = "done"
    /\ fetch[CFB].st = "ok"
    /\ fetch[NFL] = Call("failed", "absent", "HTTP")
    /\ stdout = <<>>
    /\ stderr = <<[kind |-> "error", msg |-> "HTTP"]>>

-----------------------------------------------------------------------------
(* C8 *)

\* what C8 says is kept, from the options as given on the command line
KeptByOptions(g, o, nowMs, zone) ==
    LET n == IF Truthy(o.days) THEN parseInt(o.days).v ELSE 0
        onDate == DateFilter(g, computeTargetDate(n, nowMs, zone))
        ofTeam == TeamFilter(g, toLowerCase(o.team))
    IN  CASE ~Truthy(o.days) /\ ~Truthy(o.team) -> onDate
          [] ~Truthy(o.days) /\ Truthy(o.team) -> ofTeam
          [] Truthy(o.days) /\ ~Truthy(o.team) -> onDate
          [] Truthy(o.days) /\ Truthy(o.team) -> onDate /\ ofTeam

\* C8: when the display phase runs, the games printed are those of the combined
\* schedules that pass: today's date filter when neither option is given; the
\* team filter alone when only --team is; the date filter for offset n alone
\* when only --days n is; both filters when both are given.
C8_DefaultSelection ==
    [][(/\ pc = "games"
        /\ pc' = "done"
        /\ fetch[CFB].st = "ok"
        /\ fetch[NFL].st = "ok"
        /\ (Truthy(opts.days) => IsIntegerString(opts.days)))
          => SamePerm(Rows(stdout'),
                      SelectSeq(Combined, LAMBDA g : KeptByOptions(g, opts, now, tz)))]_vars

\* --days 0 --team EA printed a game and left another out
C8_Witness ==
    /\ pc = "done"
    /\ opts = Options(FALSE, Str_0, Str_EA)
    /\ Len(Rows(stdout)) >= 1
    /\ Len(Rows(stdout)) < Len(Combined)
    /\ \E g \in Range(Combined) : TeamFilter(g, <<"e", "a">>) /\ g \notin Range(Rows(stdout))

-----------------------------------------------------------------------------
(* C9 *)

\* C9: the rows printed are a permutation of the filtered games, in ascending
\* week and, within a week, in ascending effective time; a game with neither
\* dateTime nor day comes before every game of its week that has a time.
C9_RowsAreSorted ==
    pc = "done"
    => LET rows == Rows(stdout)
       IN  /\ SamePerm(rows, Filtered(Combined, offset, opts, now, tz))
           /\ \A i, j \in DOMAIN rows :
                 i < j => \/ rows[i].week < rows[j].week
                          \/ /\ rows[i].week = rows[j].week
                             /\ EffectiveTime(rows[i]) <= EffectiveTime(rows[j])
           /\ \A i, j \in DOMAIN rows :
                 (/\ rows[i].week = rows[j].week
                  /\ ~Truthy(rows[i].dateTime) /\ ~Truthy(rows[i].day)
                  /\ (Truthy(rows[j].dateTime) \/ Truthy(rows[j].day)))
                 => i < j

\* the sort moved a game: the input had a later week first and, within a week,
\* a timed game before one without any time
C9_Witness ==
    /\ pc = "done"
    /\ LET rows == Rows(stdout)
           kept == Filtered(Combined, offset, opts, now, tz)
       IN  /\ Len(rows) >= 3
           /\ rows # kept
           /\ kept[1].week > kept[Len(kept)].week
           /\ \E i, j \in DOMAIN kept :
                 /\ i < j
                 /\ kept[i].week = kept[j].week
                 /\ Truthy(kept[i].dateTime)
                 /\ ~Truthy(kept[j].dateTime) /\ ~Truthy(kept[j].day)

-----------------------------------------------------------------------------
(* C10 *)

\* C10: a fetchWithCache call that finds a fresh entry that is not JSON fails
\* without a request and without touching the cache; the run then ends with
\* the error and no listing; and an entry that is corrupt and fresh is changed
\* by nothing but clearCache.
C10_CorruptFreshEntryIsFatal ==
    [][\A k \in Keys :
          /\ (/\ Begins(k)
              /\ files[k].exists
              /\ ~files[k].content.valid
              /\ Age(k) < CACHE_TTL)
                => /\ fetch'[k] = Call("failed", "fresh", "SyntaxError")
                   /\ requests' = requests
                   /\ files' = files
          /\ (fetch[k] = Call("failed", "fresh", "SyntaxError") /\ pc' = "done")
                => /\ ~HasListing(stdout')
                   /\ Len(stderr') = 1
                   /\ stderr'[1].kind = "error"
          /\ (/\ files[k].exists
              /\ ~files[k].content.valid
              /\ Age(k) < CACHE_TTL
              /\ files'[k] # files[k])
                => /\ pc = "main"
                   /\ opts.clearCache
                   /\ ~files'[k].exists]_vars

\* a later run found the corrupt entry still fresh and failed on it, with no
\* request for that key since the one that had filled it
C10_Witness ==
    \E k \in Keys :
        /\ runs = 2
        /\ pc = "done"
        /\ fetch[k] = Call("failed", "fresh", "SyntaxError")
        /\ requests[k] = 1
        /\ files[k].exists
        /\ ~files[k].content.valid
        /\ stderr = <<[kind |-> "error", msg |-> "SyntaxError"]>>
        /\ stdout = <<>>

====
